---- MODULE Spec2Model ----
(***************************************************************************)
(* A model of the `everything` query layer (src/src/lib.rs): the Search    *)
(* builder, the range -> offset/count conversion of query_range, the       *)
(* guarded configure-issue-materialize sequence against the process-wide   *)
(* engine, Item::from_result with get_metadata_from_item, and the two pure *)
(* conversions convert_sort_type and convert_filetime.                     *)
(*                                                                         *)
(* Fixed-width integers are little-endian tuples of 16-bit limbs, so that  *)
(* u32 (2 limbs), usize and u64 (4 limbs) keep their real width while every*)
(* intermediate value stays inside the checker's machine integers.         *)
(*                                                                         *)
(* What the build decides is a choice of Init: overflow checks, debug      *)
(* assertions, and the target, whose SystemTime bounds the times that      *)
(* SystemTime + Duration can represent before it panics.                   *)
(***************************************************************************)
EXTENDS Integers, Sequences, FiniteSets, TLC

VARIABLES
    target,            \* build target: "windows" or "unix", the representation of SystemTime
    overflow_checks,   \* build profile: arithmetic overflow panics (dev) or wraps (release)
    debug_assertions,  \* build profile: debug_assert_eq! is compiled in
    search,            \* search[t]: the Search value thread t holds
    ncalls,            \* ncalls[t]: builder calls made on search[t]
    reqHist,           \* reqHist[t]: the arguments of the request_metadata calls so far
    pc,                \* pc[t]: the next operation of thread t
    range,             \* range[t]: the argument of thread t's query_range call
    range_start,       \* range_start[t]: local of query_range (u32)
    range_len,         \* range_len[t]: local of query_range (u32)
    holder,            \* thread holding the guard of everything_sdk::global(), 0 if free
    poisoned,          \* the mutex was poisoned by a panic under the guard
    engine,            \* the configuration of the process-wide searcher
    issued,            \* issued[t]: the engine configuration at t's query(), or None
    result,            \* result[t]: the window of raw results query() returned to t
    cursor,            \* cursor[t]: how many positions of the window were materialized
    out,               \* out[t]: the Items collected so far
    outPos,            \* outPos[t]: the window position each collected Item came from
    invoked,           \* invoked[t]: <<position, flag>> of every metadata accessor call
    ft_in,             \* inputs of convert_filetime (a pair of tick values)
    ft_out             \* results of convert_filetime on ft_in, <<>> before the call

vars == <<target, overflow_checks, debug_assertions, search, ncalls, reqHist, pc, range,
          range_start, range_len, holder, poisoned, engine, issued, result,
          cursor, out, outPos, invoked, ft_in, ft_out>>

\* Option<T>
None == <<>>
Some(v) == <<v>>

----------------------------------------------------------------------------
\* Bounds of the model.

\* Number of threads calling query_range concurrently.
NumThreads == 2
\* Longest result window the engine returns.
MaxWindow == 2
\* Most builder calls chained on one Search before it is queried.
MaxBuilderCalls == 2

Threads == 1..NumThreads

----------------------------------------------------------------------------
\* Fixed-width unsigned integers as little-endian tuples of 16-bit limbs.

Base == 2^16

\* The n-limb number of a small non-negative integer k < 2^31.
FromInt(k, n) == [i \in 1..n |-> IF i = 1 THEN k % Base
                                 ELSE IF i = 2 THEN k \div Base ELSE 0]

\* Zero-extension to n limbs.
Ext(a, n) == [i \in 1..n |-> IF i <= Len(a) THEN a[i] ELSE 0]

RECURSIVE AddFrom(_, _, _, _)
AddFrom(a, b, i, c) ==
    IF i > Len(a) THEN [val |-> <<>>, carry |-> c]
    ELSE LET s == a[i] + b[i] + c
             r == AddFrom(a, b, i + 1, s \div Base)
         IN  [val |-> <<s % Base>> \o r.val, carry |-> r.carry]

\* a + b on Len(a) limbs: the wrapped sum and the carry out.
Add(a, b) == AddFrom(a, b, 1, 0)

RECURSIVE SubFrom(_, _, _, _)
SubFrom(a, b, i, bw) ==
    IF i > Len(a) THEN [val |-> <<>>, borrow |-> bw]
    ELSE LET d == a[i] - b[i] - bw
             r == SubFrom(a, b, i + 1, IF d < 0 THEN 1 ELSE 0)
         IN  [val |-> <<d % Base>> \o r.val, borrow |-> r.borrow]

\* a - b on Len(a) limbs: the wrapped difference and the borrow out.
Sub(a, b) == SubFrom(a, b, 1, 0)

RECURSIVE LessAt(_, _, _)
LessAt(a, b, i) ==
    IF i = 0 THEN FALSE
    ELSE IF a[i] # b[i] THEN a[i] < b[i]
    ELSE LessAt(a, b, i - 1)

Less(a, b) == LessAt(a, b, Len(a))
Leq(a, b) == a = b \/ Less(a, b)

RECURSIVE DivFrom(_, _, _, _)
DivFrom(a, d, i, r) ==
    IF i = 0 THEN [quot |-> <<>>, rem |-> r]
    ELSE LET cur == r * Base + a[i]
             rest == DivFrom(a, d, i - 1, cur % d)
         IN  [quot |-> rest.quot \o <<cur \div d>>, rem |-> rest.rem]

\* a / d and a % d for a small divisor d <= 10^4.
DivSmall(a, d) == DivFrom(a, d, Len(a), 0)

RECURSIVE MulFrom(_, _, _, _)
MulFrom(a, m, i, c) ==
    IF i > Len(a) THEN [val |-> <<>>, carry |-> c]
    ELSE LET s == a[i] * m + c
             r == MulFrom(a, m, i + 1, s \div Base)
         IN  [val |-> <<s % Base>> \o r.val, carry |-> r.carry]

\* a * m on Len(a) limbs for a small factor m <= 10^4: the product and the carry out.
MulSmall(a, m) == MulFrom(a, m, 1, 0)

\* u32::MAX and u64::MAX
U32_MAX == <<Base - 1, Base - 1>>
U64_MAX == <<Base - 1, Base - 1, Base - 1, Base - 1>>

\* `x as u32` of a usize: the low 32 bits.
as_u32(x) == SubSeq(x, 1, 2)

----------------------------------------------------------------------------
\* convert_filetime

\* 116_444_736_000_000_000 = 0x019D_B1DE_D53E_8000
FILETIME_UNIX_DIFF == <<32768, 54590, 45534, 413>>

\* u64::saturating_sub
saturating_sub(a, b) == IF Less(a, b) THEN FromInt(0, 4) ELSE Sub(a, b).val

\* x / 10_000_000 and x % 10_000_000, divided as 10^4 then 10^3.
DivMod10M(x) ==
    LET d1 == DivSmall(x, 10000)
        d2 == DivSmall(d1.quot, 1000)
    IN  [quot |-> d2.quot, rem |-> d2.rem * 10000 + d1.rem]

\* Duration::new(secs, nanos): whole seconds of nanos carry into secs, and
\* the call panics when that carry overflows the u64 seconds.
Duration_new(secs, nanos) ==
    LET a == Add(secs, FromInt(nanos \div 1000000000, 4))
    IN  [val   |-> [secs |-> a.val, nanos |-> nanos % 1000000000],
         panic |-> a.carry # 0]

\* SystemTime::UNIX_EPOCH, a SystemTime being the Duration since the epoch.
UNIX_EPOCH == [secs |-> FromInt(0, 4), nanos |-> 0]

\* The build targets: the standard library keeps a SystemTime as a signed
\* 64-bit count of 100 ns intervals since 1601 on Windows, and as signed 64-bit
\* seconds since 1970 with a nanosecond part elsewhere.
Targets == {"windows", "unix"}

\* A u64 that is also an i64: at most i64::MAX.
FitsI64(x) == x[4] < 32768

\* The 100 ns intervals of a Duration (secs * 10^7 + nanos / 100), and whether
\* that count fits in 64 bits.
TicksOf(time) ==
    LET m1 == MulSmall(time.secs, 10000)
        m2 == MulSmall(m1.val, 1000)
        a  == Add(m2.val, FromInt(time.nanos \div 100, 4))
    IN  [val |-> a.val, fits |-> m1.carry = 0 /\ m2.carry = 0 /\ a.carry = 0]

\* A checked sum that did not overflow the u64 and is an i64.
SumFitsI64(sum) == sum.carry = 0 /\ FitsI64(sum.val)

\* Whether a Windows SystemTime `since` intervals after the Unix epoch plus
\* `delta` intervals is a SystemTime: the intervals of the Duration and their
\* sum with the intervals since 1601 are both an i64.
RepresentableIntervals(since, delta) ==
    /\ delta.fits /\ FitsI64(delta.val)
    /\ since.fits /\ SumFitsI64(Add(since.val, FILETIME_UNIX_DIFF))
    /\ SumFitsI64(Add(Add(since.val, FILETIME_UNIX_DIFF).val, delta.val))

\* Whether a Unix SystemTime plus a Duration is a SystemTime: the seconds of
\* the Duration and the summed seconds, with the carry of the nanoseconds, are
\* both an i64.
RepresentableSeconds(time, dur) ==
    /\ FitsI64(dur.secs)
    /\ SumFitsI64(Add(time.secs, dur.secs))
    /\ SumFitsI64(Add(Add(time.secs, dur.secs).val,
                      FromInt((time.nanos + dur.nanos) \div 1000000000, 4)))

\* Whether time + dur is a SystemTime of the target.
Representable(time, dur) ==
    IF target = "windows"
    THEN RepresentableIntervals(TicksOf(time), TicksOf(dur))
    ELSE RepresentableSeconds(time, dur)

\* SystemTime + Duration: the sum, or a panic when it is not representable.
\* A Windows SystemTime keeps whole 100 ns intervals.
SystemTime_add(time, dur) ==
    LET n == time.nanos + dur.nanos
        r == n % 1000000000
    IN  IF Representable(time, dur)
        THEN [val |-> [secs  |-> Add(Add(time.secs, dur.secs).val,
                                     FromInt(n \div 1000000000, 4)).val,
                       nanos |-> IF target = "windows" THEN r - (r % 100) ELSE r],
              panic |-> FALSE]
        ELSE [val |-> time, panic |-> TRUE]

\* The SystemTime of a FILETIME, or a panic of Duration::new or of the addition.
convert_filetime(filetime) ==
    LET unix_100ns == saturating_sub(filetime, FILETIME_UNIX_DIFF)
        qr    == DivMod10M(unix_100ns)
        secs  == qr.quot
        \* (rem * 100) as u32: rem < 10^7, so the product is below 2^32
        nanos == qr.rem * 100
        dur   == Duration_new(secs, nanos)
    IN  IF dur.panic THEN [val |-> UNIX_EPOCH, panic |-> TRUE]
        ELSE SystemTime_add(UNIX_EPOCH, dur.val)

----------------------------------------------------------------------------
\* SortKey, SortOrder and convert_sort_type

SortKey == {"Name", "TypeName", "Path", "Size", "Extension", "DateCreated",
            "DateModified", "DateAccessed", "Attributes"}
SortOrder == {"Ascending", "Descending"}

SortTypeOf(key, order) ==
    CASE key = "Name"         /\ order = "Ascending"  -> "EVERYTHING_SORT_NAME_ASCENDING"
      [] key = "Name"         /\ order = "Descending" -> "EVERYTHING_SORT_NAME_DESCENDING"
      [] key = "TypeName"     /\ order = "Ascending"  -> "EVERYTHING_SORT_TYPE_NAME_ASCENDING"
      [] key = "TypeName"     /\ order = "Descending" -> "EVERYTHING_SORT_TYPE_NAME_DESCENDING"
      [] key = "Path"         /\ order = "Ascending"  -> "EVERYTHING_SORT_PATH_ASCENDING"
      [] key = "Path"         /\ order = "Descending" -> "EVERYTHING_SORT_PATH_DESCENDING"
      [] key = "Size"         /\ order = "Ascending"  -> "EVERYTHING_SORT_SIZE_ASCENDING"
      [] key = "Size"         /\ order = "Descending" -> "EVERYTHING_SORT_SIZE_DESCENDING"
      [] key = "Extension"    /\ order = "Ascending"  -> "EVERYTHING_SORT_EXTENSION_ASCENDING"
      [] key = "Extension"    /\ order = "Descending" -> "EVERYTHING_SORT_EXTENSION_DESCENDING"
      [] key = "DateCreated"  /\ order = "Ascending"  -> "EVERYTHING_SORT_DATE_CREATED_ASCENDING"
      [] key = "DateCreated"  /\ order = "Descending" -> "EVERYTHING_SORT_DATE_CREATED_DESCENDING"
      [] key = "DateModified" /\ order = "Ascending"  -> "EVERYTHING_SORT_DATE_MODIFIED_ASCENDING"
      [] key = "DateModified" /\ order = "Descending" -> "EVERYTHING_SORT_DATE_MODIFIED_DESCENDING"
      [] key = "DateAccessed" /\ order = "Ascending"  -> "EVERYTHING_SORT_DATE_ACCESSED_ASCENDING"
      [] key = "DateAccessed" /\ order = "Descending" -> "EVERYTHING_SORT_DATE_ACCESSED_DESCENDING"
      [] key = "Attributes"   /\ order = "Ascending"  -> "EVERYTHING_SORT_ATTRIBUTES_ASCENDING"
      [] key = "Attributes"   /\ order = "Descending" -> "EVERYTHING_SORT_ATTRIBUTES_DESCENDING"

\* A mutant of convert_sort_type: the (Size, Ascending) arm names the descending mode.
convert_sort_type_swapped(key, order) ==
    IF key = "Size" /\ order = "Ascending" THEN "EVERYTHING_SORT_SIZE_DESCENDING"
    ELSE SortTypeOf(key, order)

convert_sort_type(key, order) == SortTypeOf(key, order)

----------------------------------------------------------------------------
\* ItemMetadata, Search and its builder methods

\* The flags of ItemMetadata; a value of the bit set is a set of flags.
ItemMetadata == {"SIZE", "DATE_CREATED", "DATE_MODIFIED", "DATE_ACCESSED", "ATTRIBUTES"}

\* The flags RequestFlags defines: those ItemMetadata takes its bits from, and the
\* name and path flags of the engine.
RequestFlags == ItemMetadata \cup {"FILE_NAME", "PATH", "FULL_PATH_AND_FILE_NAME"}

\* RequestFlags::from_bits_truncate: the bits RequestFlags does not define are dropped.
from_bits_truncate(bits) == bits \cap RequestFlags

\* Search::default() with the given pattern
search_(pattern) ==
    [pattern |-> pattern, regex |-> FALSE, match_case |-> FALSE, match_path |-> FALSE,
     match_whole_word |-> FALSE, sort_key |-> "Name", sort_order |-> "Ascending",
     requested_metadata |-> {}]

search_regex(pattern) == [search_(pattern) EXCEPT !.regex = TRUE]

match_case(self, case) == [self EXCEPT !.match_case = case]
match_path(self, path) == [self EXCEPT !.match_path = path]
match_whole_word(self, whole_word) == [self EXCEPT !.match_whole_word = whole_word]
sort_by(self, key, order) == [self EXCEPT !.sort_key = key, !.sort_order = order]

\* A mutant of request_metadata: the new flags replace the old ones.
request_metadata_overwrites(self, metadata) ==
    [self EXCEPT !.requested_metadata = metadata]

\* self.requested_metadata |= metadata
request_metadata(self, metadata) ==
    [self EXCEPT !.requested_metadata = @ \cup metadata]

----------------------------------------------------------------------------
\* query_range: the range -> (offset, count) conversion

\* Bound<usize>; a usize has 64 bits (4 limbs).
Included(v) == [kind |-> "Included", v |-> v]
Excluded(v) == [kind |-> "Excluded", v |-> v]
Unbounded == [kind |-> "Unbounded", v |-> FromInt(0, 4)]

\* The argument `..` of query_all.
FullRange == [lo |-> Unbounded, hi |-> Unbounded]

\* u32 `+` and `-`: the wrapped result, and whether the operation overflowed
\* (a panic when the build checks overflow, the wrapped result otherwise).
u32_add(a, b) == LET r == Add(a, b) IN [val |-> r.val, overflow |-> r.carry = 1]

\* A mutant of u32_sub: the difference saturates at 0.
u32_sub_saturates(a, b) ==
    IF Less(a, b) THEN [val |-> FromInt(0, 2), overflow |-> FALSE]
    ELSE [val |-> Sub(a, b).val, overflow |-> FALSE]

u32_sub(a, b) == LET r == Sub(a, b) IN [val |-> r.val, overflow |-> r.borrow = 1]

\* let range_start = match range.start_bound() { .. }
RangeStart(r) ==
    CASE r.lo.kind = "Included"  -> [val |-> as_u32(r.lo.v), overflow |-> FALSE]
      [] r.lo.kind = "Excluded"  -> u32_add(as_u32(r.lo.v), FromInt(1, 2))
      [] r.lo.kind = "Unbounded" -> [val |-> FromInt(0, 2), overflow |-> FALSE]

\* let range_len = match range.end_bound() { .. }
RangeLen(r, start) ==
    CASE r.hi.kind = "Included"  ->
            LET d == u32_sub(as_u32(r.hi.v), start)
                s == u32_add(d.val, FromInt(1, 2))
            IN  [val |-> s.val, overflow |-> d.overflow \/ s.overflow]
      [] r.hi.kind = "Excluded"  -> u32_sub(as_u32(r.hi.v), start)
      [] r.hi.kind = "Unbounded" -> [val |-> U32_MAX, overflow |-> FALSE]

\* Both locals of query_range, and whether computing them overflowed.
RangeToOffsetCount(r) ==
    LET s == RangeStart(r)
        l == RangeLen(r, s.val)
    IN  [start |-> s.val, len |-> l.val, overflow |-> s.overflow \/ l.overflow]

----------------------------------------------------------------------------
\* Item::from_result and get_metadata_from_item

\* A mutant of get_metadata_from_item: the accessor is called whatever was requested.
get_metadata_unconditional(s, raw, metadata_flag) ==
    IF metadata_flag \in raw.ok
    THEN [value |-> Some(raw.val[metadata_flag]), called |-> TRUE]
    ELSE [value |-> None, called |-> TRUE]

\* The field, and whether the accessor of the engine was called for it.
get_metadata_from_item(s, raw, metadata_flag) ==
    IF {metadata_flag} \subseteq s.requested_metadata
    THEN IF metadata_flag \in raw.ok
         THEN [value |-> Some(raw.val[metadata_flag]), called |-> TRUE]
         ELSE [value |-> None, called |-> TRUE]
    ELSE [value |-> None, called |-> FALSE]

\* The flags of the dates, which Item::from_result converts.
DateFlags == {"DATE_CREATED", "DATE_MODIFIED", "DATE_ACCESSED"}

\* Option::map(convert_filetime)
map_convert_filetime(opt) ==
    LET c == convert_filetime(opt[1])
    IN  IF opt = None THEN [value |-> None, panic |-> FALSE]
        ELSE [value |-> Some(c.val), panic |-> c.panic]

\* item_type_candidates.iter().flatten()
item_type_candidates(raw) ==
    (IF raw.is_file THEN <<"File">> ELSE <<>>) \o
    (IF raw.is_folder THEN <<"Folder">> ELSE <<>>) \o
    (IF raw.is_volume THEN <<"Volume">> ELSE <<>>)

\* item_type_candidates.iter().flatten().next().copied()
item_type(raw) ==
    IF item_type_candidates(raw) = <<>> THEN None
    ELSE Some(Head(item_type_candidates(raw)))

\* Some(Self { .. }) of Item::from_result, given the three converted dates:
\* the fields are evaluated in order, so that a conversion that panics leaves
\* the accessors after it uncalled and no Item.
Item_of(s, raw, created, modified, accessed) ==
    LET m(flag) == get_metadata_from_item(s, raw, flag)
        reached(flag) ==
            CASE flag \in {"SIZE", "DATE_CREATED"} -> TRUE
              [] flag = "DATE_MODIFIED" -> ~created.panic
              [] flag = "DATE_ACCESSED" -> ~created.panic /\ ~modified.panic
              [] flag = "ATTRIBUTES"    ->
                    ~created.panic /\ ~modified.panic /\ ~accessed.panic
    IN  [item |-> IF created.panic \/ modified.panic \/ accessed.panic THEN None
                  ELSE Some(
                     [path          |-> raw.path,
                      item_type     |-> item_type(raw)[1],
                      size          |-> m("SIZE").value,
                      date_created  |-> created.value,
                      date_modified |-> modified.value,
                      date_accessed |-> accessed.value,
                      attributes    |-> m("ATTRIBUTES").value]),
         assert_failed |-> Len(item_type_candidates(raw)) # 1,
         convert_panicked |-> created.panic \/ modified.panic \/ accessed.panic,
         called |-> {f \in ItemMetadata : m(f).called /\ reached(f)}]

\* Item::from_result on one raw result: the Item if any, whether the
\* debug_assert_eq! on the candidate count was reached and failed, whether a
\* convert_filetime of the Item's dates panicked, and the metadata accessors
\* called.
Item_from_result(s, raw) ==
    IF ~raw.path_ok
    THEN [item |-> None, assert_failed |-> FALSE, convert_panicked |-> FALSE,
          called |-> {}]
    ELSE IF item_type(raw) = None
    THEN [item |-> None, assert_failed |-> Len(item_type_candidates(raw)) # 1,
          convert_panicked |-> FALSE, called |-> {}]
    ELSE Item_of(s, raw,
                 map_convert_filetime(get_metadata_from_item(s, raw, "DATE_CREATED").value),
                 map_convert_filetime(get_metadata_from_item(s, raw, "DATE_MODIFIED").value),
                 map_convert_filetime(get_metadata_from_item(s, raw, "DATE_ACCESSED").value))

\* The closure of filter_map: Item::from_result(self, &result, i)
from_result(s, raw) == Item_from_result(s, raw)

----------------------------------------------------------------------------
\* The process-wide engine and the calls query_range makes on it

\* The setters of apply and of query_range, in call order.
SetterOrder == <<"set_search", "set_regex", "set_match_case", "set_match_path",
                 "set_match_whole_word", "set_sort", "set_request_flags",
                 "set_offset", "set_max">>
Setters == {SetterOrder[i] : i \in 1..Len(SetterOrder)}

SetterIndex(name) == CHOOSE i \in 1..Len(SetterOrder) : SetterOrder[i] = name

\* The operation after setter `name`: the next setter, or query().
AfterSetter(name) ==
    IF SetterIndex(name) < Len(SetterOrder) THEN SetterOrder[SetterIndex(name) + 1]
    ELSE "query"

\* The argument apply / query_range pass to setter `name`.
SetterValue(name, s, start, len) ==
    CASE name = "set_search"           -> s.pattern
      [] name = "set_regex"            -> s.regex
      [] name = "set_match_case"       -> s.match_case
      [] name = "set_match_path"       -> s.match_path
      [] name = "set_match_whole_word" -> s.match_whole_word
      [] name = "set_sort"             -> convert_sort_type(s.sort_key, s.sort_order)
      [] name = "set_request_flags"    -> from_bits_truncate(s.requested_metadata)
      [] name = "set_offset"           -> start
      [] name = "set_max"              -> len

\* The configuration of the engine before any caller touched it; by[name] is the
\* thread whose call of setter `name` wrote the current value (0: none).
EngineInit ==
    [cfg |-> [name \in Setters |->
                SetterValue(name, search_(""), FromInt(0, 2), U32_MAX)],
     by  |-> [name \in Setters |-> 0]]

\* A mutant of MutexAvailable: lock() returns without waiting for the guard.
MutexNeverWaits(h) == TRUE

\* Mutex::lock returns once no other thread holds the guard.
MutexAvailable(h) == h = 0

\* A mutant of GuardAfterQuery: the guard is dropped as soon as query() returns.
GuardDroppedAfterQuery(h) == 0

\* The guard `everything` is a local of query_range that `result` borrows from
\* (through `searcher`): it stays held after query() returns.
GuardAfterQuery(h) == h

\* The engine returns at most `count` results.
WithinCount(n, count) == count[2] > 0 \/ n <= count[1]

----------------------------------------------------------------------------
\* Actions: the builder

Built(t, s) ==
    /\ pc[t] = "idle"
    /\ ncalls[t] < MaxBuilderCalls
    /\ search' = [search EXCEPT ![t] = s]
    /\ ncalls' = [ncalls EXCEPT ![t] = @ + 1]
    /\ UNCHANGED <<target, overflow_checks, debug_assertions, pc, range, range_start,
                   range_len, holder, poisoned, engine, issued, result, cursor,
                   out, outPos, invoked, ft_in, ft_out>>

DoMatchCase(t, case) == Built(t, match_case(search[t], case)) /\ UNCHANGED reqHist
DoMatchPath(t, path) == Built(t, match_path(search[t], path)) /\ UNCHANGED reqHist
DoMatchWholeWord(t, whole_word) ==
    Built(t, match_whole_word(search[t], whole_word)) /\ UNCHANGED reqHist
DoSortBy(t, key, order) == Built(t, sort_by(search[t], key, order)) /\ UNCHANGED reqHist
DoRequestMetadata(t, metadata) ==
    /\ Built(t, request_metadata(search[t], metadata))
    /\ reqHist' = [reqHist EXCEPT ![t] = Append(@, metadata)]

----------------------------------------------------------------------------
\* Actions: query_range, one action per step another thread can interleave with

\* query_range up to the lock: the two locals are computed; an overflowing `+`
\* or `-` panics when the build checks overflow.
QueryRange(t, r) ==
    /\ pc[t] = "idle"
    /\ range' = [range EXCEPT ![t] = Some(r)]
    /\ LET c == RangeToOffsetCount(r)
       IN  IF overflow_checks /\ c.overflow
           THEN /\ pc' = [pc EXCEPT ![t] = "panicked"]
                /\ UNCHANGED <<range_start, range_len>>
           ELSE /\ pc' = [pc EXCEPT ![t] = "lock"]
                /\ range_start' = [range_start EXCEPT ![t] = c.start]
                /\ range_len' = [range_len EXCEPT ![t] = c.len]
    /\ UNCHANGED <<target, overflow_checks, debug_assertions, search, ncalls, reqHist,
                   holder, poisoned, engine, issued, result, cursor, out, outPos,
                   invoked, ft_in, ft_out>>

\* query_all is query_range(..)
QueryAll(t) == QueryRange(t, FullRange)

\* everything_sdk::global().lock().unwrap(): waits for the guard; unwrap panics
\* (and the guard is dropped at once) when the mutex is poisoned.
Lock(t) ==
    /\ pc[t] = "lock"
    /\ MutexAvailable(holder)
    /\ IF poisoned
       THEN pc' = [pc EXCEPT ![t] = "panicked"] /\ UNCHANGED holder
       ELSE pc' = [pc EXCEPT ![t] = SetterOrder[1]] /\ holder' = t
    /\ UNCHANGED <<target, overflow_checks, debug_assertions, search, ncalls, reqHist,
                   range, range_start, range_len, poisoned, engine, issued,
                   result, cursor, out, outPos, invoked, ft_in, ft_out>>

\* One setter call of self.apply(&mut searcher) or of .set_offset(..).set_max(..)
Set(t) ==
    /\ pc[t] \in Setters
    /\ engine' = [cfg |-> [engine.cfg EXCEPT ![pc[t]] =
                             SetterValue(pc[t], search[t], range_start[t], range_len[t])],
                  by  |-> [engine.by EXCEPT ![pc[t]] = t]]
    /\ pc' = [pc EXCEPT ![t] = AfterSetter(pc[t])]
    /\ UNCHANGED <<target, overflow_checks, debug_assertions, search, ncalls, reqHist,
                   range, range_start, range_len, holder, poisoned, issued,
                   result, cursor, out, outPos, invoked, ft_in, ft_out>>

\* .query(): the engine answers the configuration it holds with a window w of
\* at most `max` raw results.
Query(t, w) ==
    /\ pc[t] = "query"
    /\ WithinCount(Len(w), engine.cfg["set_max"])
    /\ issued' = [issued EXCEPT ![t] = Some(engine)]
    /\ result' = [result EXCEPT ![t] = w]
    /\ holder' = GuardAfterQuery(holder)
    /\ pc' = [pc EXCEPT ![t] = "from_result"]
    /\ UNCHANGED <<target, overflow_checks, debug_assertions, search, ncalls, reqHist,
                   range, range_start, range_len, poisoned, engine, cursor, out,
                   outPos, invoked, ft_in, ft_out>>

\* One step of (0..result.num()).filter_map(|i| Item::from_result(..)): a failed
\* debug_assert_eq!, or a convert_filetime that panics after the accessors
\* before it were called, panics under the guard, which poisons the mutex.
Materialize(t) ==
    /\ pc[t] = "from_result"
    /\ cursor[t] < Len(result[t])
    /\ LET i == cursor[t] + 1
           r == from_result(search[t], result[t][i])
       IN  IF (debug_assertions /\ r.assert_failed) \/ r.convert_panicked
           THEN /\ pc' = [pc EXCEPT ![t] = "panicked"]
                /\ holder' = IF holder = t THEN 0 ELSE holder
                /\ poisoned' = (poisoned \/ holder = t)
                /\ invoked' = [invoked EXCEPT ![t] =
                                 IF debug_assertions /\ r.assert_failed THEN @
                                 ELSE @ \cup {<<i, f>> : f \in r.called}]
                /\ UNCHANGED <<cursor, out, outPos>>
           ELSE /\ cursor' = [cursor EXCEPT ![t] = i]
                /\ out' = [out EXCEPT ![t] = @ \o r.item]
                /\ outPos' = [outPos EXCEPT ![t] =
                                IF r.item = None THEN @ ELSE Append(@, i)]
                /\ invoked' = [invoked EXCEPT ![t] = @ \cup {<<i, f>> : f \in r.called}]
                /\ UNCHANGED <<pc, holder, poisoned>>
    /\ UNCHANGED <<target, overflow_checks, debug_assertions, search, ncalls, reqHist,
                   range, range_start, range_len, engine, issued, result,
                   ft_in, ft_out>>

\* .collect() is complete: query_range returns, its locals (the guard) are dropped.
Return(t) ==
    /\ pc[t] = "from_result"
    /\ cursor[t] = Len(result[t])
    /\ pc' = [pc EXCEPT ![t] = "done"]
    /\ holder' = IF holder = t THEN 0 ELSE holder
    /\ UNCHANGED <<target, overflow_checks, debug_assertions, search, ncalls, reqHist,
                   range, range_start, range_len, poisoned, engine, issued,
                   result, cursor, out, outPos, invoked, ft_in, ft_out>>

\* convert_filetime applied to both inputs
ConvertFiletime ==
    /\ ft_in # <<>>
    /\ ft_out = <<>>
    /\ ft_out' = <<convert_filetime(ft_in[1]), convert_filetime(ft_in[2])>>
    /\ UNCHANGED <<target, overflow_checks, debug_assertions, search, ncalls, reqHist, pc,
                   range, range_start, range_len, holder, poisoned, engine,
                   issued, result, cursor, out, outPos, invoked, ft_in>>

----------------------------------------------------------------------------
\* Inputs

\* usize values around the edges of u32 and of usize
RangeValues ==
    {FromInt(0, 4), FromInt(1, 4), FromInt(2, 4), FromInt(10, 4),
     <<Base - 2, Base - 1, 0, 0>>,      \* 2^32 - 2
     <<Base - 1, Base - 1, 0, 0>>,      \* 2^32 - 1
     <<0, 0, 1, 0>>,                    \* 2^32
     <<1, 0, 1, 0>>,                    \* 2^32 + 1
     U64_MAX}

Bounds == {Unbounded} \cup {Included(v) : v \in RangeValues}
                      \cup {Excluded(v) : v \in RangeValues}

RangeInputs == {[lo |-> l, hi |-> h] : l \in Bounds, h \in Bounds}

\* 0..10
FirstTen == [lo |-> Included(FromInt(0, 4)), hi |-> Excluded(FromInt(10, 4))]
\* 10..2, an inverted range
Inverted == [lo |-> Included(FromInt(10, 4)), hi |-> Excluded(FromInt(2, 4))]

\* What the accessors of the raw result named `path` return when they succeed.
RawValues(n) ==
    [f \in ItemMetadata |->
        CASE f = "SIZE"          -> FromInt(1000 * n, 4)
          [] f = "ATTRIBUTES"    -> FromInt(32, 2)
          [] f = "DATE_CREATED"  -> Add(FILETIME_UNIX_DIFF, FromInt(10000000 * n, 4)).val
          [] f = "DATE_MODIFIED" -> Add(FILETIME_UNIX_DIFF, FromInt(10000000 * n + 15, 4)).val
          [] f = "DATE_ACCESSED" -> FromInt(n, 4)]

\* A raw result of the engine: whether full_path_name succeeds, the three kind
\* predicates, and the metadata accessors that succeed.
Raw(n, path_ok, is_file, is_folder, is_volume, ok) ==
    [path |-> n, path_ok |-> path_ok, is_file |-> is_file, is_folder |-> is_folder,
     is_volume |-> is_volume, ok |-> ok, val |-> RawValues(n)]

\* A file whose date_modified accessor returns the largest FILETIME.
FarDatedFile ==
    [path |-> 13, path_ok |-> TRUE, is_file |-> TRUE, is_folder |-> FALSE,
     is_volume |-> FALSE, ok |-> ItemMetadata,
     val |-> [f \in ItemMetadata |->
                 IF f = "DATE_MODIFIED" THEN U64_MAX ELSE RawValues(13)[f]]]

\* Results of no kind, of each single kind and of several kinds with all
\* accessors succeeding, one result without a path, files whose accessors fail
\* in part or in whole, and a file whose modification date is the largest
\* FILETIME.
Pool ==
    {Raw(1, TRUE, FALSE, FALSE, FALSE, ItemMetadata),
     Raw(2, TRUE, TRUE, FALSE, FALSE, ItemMetadata),
     Raw(3, TRUE, FALSE, TRUE, FALSE, ItemMetadata),
     Raw(4, TRUE, TRUE, TRUE, FALSE, ItemMetadata),
     Raw(5, TRUE, FALSE, FALSE, TRUE, ItemMetadata),
     Raw(8, TRUE, TRUE, TRUE, TRUE, ItemMetadata)}
    \cup {Raw(9, FALSE, TRUE, FALSE, FALSE, ItemMetadata),
          Raw(10, TRUE, TRUE, FALSE, FALSE, {}),
          Raw(11, TRUE, TRUE, FALSE, FALSE, {"SIZE", "DATE_CREATED"}),
          Raw(12, TRUE, FALSE, TRUE, FALSE, {"DATE_CREATED", "DATE_ACCESSED", "ATTRIBUTES"}),
          FarDatedFile}

\* A file, a folder, and a result that is both a file and a folder.
SmallPool ==
    {Raw(2, TRUE, TRUE, FALSE, FALSE, ItemMetadata),
     Raw(3, TRUE, FALSE, TRUE, FALSE, {"SIZE"}),
     Raw(4, TRUE, TRUE, TRUE, FALSE, ItemMetadata)}

\* The windows of at most n raw results of `pool`.
Windows(pool, n) == UNION {[1..k -> pool] : k \in 0..n}

\* The answers of the engine: any window of Pool, an empty or one-result window
\* of SmallPool, a window of one file.
PoolWindows == Windows(Pool, MaxWindow)
SmallWindows == Windows(SmallPool, 1)
OneFileWindow == {<<Raw(2, TRUE, TRUE, FALSE, FALSE, ItemMetadata)>>}

\* The ranges of the concurrent callers.
CallerRanges == {FirstTen, Inverted}

\* Search values before any builder call.
PlainSearch == search_("*.txt")
RegexSearch == search_regex("a.*")

MetadataSamples ==
    {{}, ItemMetadata, {"SIZE"}, {"DATE_MODIFIED"}, {"SIZE", "DATE_MODIFIED"},
     {"DATE_CREATED", "ATTRIBUTES"}, {"DATE_ACCESSED"}}

\* The requested sets of the callers that materialize the windows of Pool.
ItemRequests ==
    {{}, ItemMetadata, {"SIZE", "DATE_MODIFIED"}, {"DATE_CREATED", "ATTRIBUTES"}}

SortSamples == {<<"Name", "Ascending">>, <<"Size", "Descending">>, <<"DateModified", "Ascending">>}

Deltas == {0, 1, 2, 99, 100, 9999999, 10000000, 10000001, 2000000000}

\* Tick values: around the epoch difference, at the edges of u64, and in between.
TickInputs ==
    {Add(FILETIME_UNIX_DIFF, FromInt(d, 4)).val : d \in Deltas}
    \cup {Sub(FILETIME_UNIX_DIFF, FromInt(d, 4)).val : d \in Deltas}
    \cup {<<a, b, c, d>> : a \in {0, Base - 1}, b \in {0, Base - 1},
                           c \in {0, Base - 1}, d \in {0, 32768, Base - 1}}

\* A distinct Search for each thread.
SearchOfThread(t) ==
    IF t = 1 THEN request_metadata(search_("*.txt"), {"SIZE"})
    ELSE IF t = 2 THEN sort_by(match_case(search_regex("a.*"), TRUE), "Size", "Descending")
    ELSE match_path(request_metadata(search_("*.rs"), {"DATE_MODIFIED", "ATTRIBUTES"}), TRUE)

----------------------------------------------------------------------------
\* Specifications

\* Everything but the build profile, the Search values and the filetime inputs.
InitCommon ==
    /\ ncalls = [t \in Threads |-> 0]
    /\ reqHist = [t \in Threads |-> <<>>]
    /\ pc = [t \in Threads |-> "idle"]
    /\ range = [t \in Threads |-> None]
    /\ range_start = [t \in Threads |-> FromInt(0, 2)]
    /\ range_len = [t \in Threads |-> FromInt(0, 2)]
    /\ holder = 0
    /\ poisoned = FALSE
    /\ engine = EngineInit
    /\ issued = [t \in Threads |-> None]
    /\ result = [t \in Threads |-> <<>>]
    /\ cursor = [t \in Threads |-> 0]
    /\ out = [t \in Threads |-> <<>>]
    /\ outPos = [t \in Threads |-> <<>>]
    /\ invoked = [t \in Threads |-> {}]

InitProfile ==
    /\ target \in Targets
    /\ overflow_checks \in BOOLEAN
    /\ debug_assertions \in BOOLEAN

InitNoFiletime == ft_in = <<>> /\ ft_out = <<>>

\* The steps of one query_range call after its entry.
Steps(t, windows) ==
    \/ Lock(t)
    \/ Set(t)
    \/ \E w \in windows : Query(t, w)
    \/ Materialize(t)
    \/ Return(t)

\* Concurrent callers, each with its own Search.
Init ==
    /\ InitProfile /\ InitCommon /\ InitNoFiletime
    /\ search = [t \in Threads |-> SearchOfThread(t)]

Next ==
    \E t \in Threads :
        \/ \E r \in CallerRanges : QueryRange(t, r)
        \/ QueryAll(t)
        \/ Steps(t, SmallWindows)

Spec == Init /\ [][Next]_vars

\* One caller of query_range over the range inputs.
InitRange ==
    /\ InitProfile /\ InitCommon /\ InitNoFiletime
    /\ search = [t \in Threads |-> PlainSearch]

NextRange ==
    \/ \E r \in RangeInputs : QueryRange(1, r)
    \/ Steps(1, SmallWindows)

SpecRange == InitRange /\ [][NextRange]_vars

\* One caller materializing the windows of Pool.
InitItems ==
    /\ target \in Targets
    /\ overflow_checks = FALSE /\ debug_assertions \in BOOLEAN
    /\ InitCommon /\ InitNoFiletime
    /\ \E m \in ItemRequests :
          search = [t \in Threads |-> request_metadata(PlainSearch, m)]

NextItems ==
    \/ QueryRange(1, FirstTen)
    \/ QueryAll(1)
    \/ Steps(1, PoolWindows)

SpecItems == InitItems /\ [][NextItems]_vars

\* One caller building its Search with the builder methods, then querying.
InitBuild ==
    /\ InitProfile /\ InitCommon /\ InitNoFiletime
    /\ \E s \in {PlainSearch, RegexSearch} :
          search = [t \in Threads |-> s]

NextBuild ==
    \/ \E b \in BOOLEAN : DoMatchCase(1, b)
    \/ \E b \in BOOLEAN : DoMatchPath(1, b)
    \/ \E b \in BOOLEAN : DoMatchWholeWord(1, b)
    \/ \E k \in SortSamples : DoSortBy(1, k[1], k[2])
    \/ \E m \in MetadataSamples : DoRequestMetadata(1, m)
    \/ QueryAll(1)
    \/ Steps(1, OneFileWindow)

SpecBuild == InitBuild /\ [][NextBuild]_vars

\* One caller per sort key and order.
InitSort ==
    /\ InitProfile /\ InitCommon /\ InitNoFiletime
    /\ search = [t \in Threads |-> PlainSearch]

NextSort ==
    \/ \E k \in SortKey, o \in SortOrder : DoSortBy(1, k, o)
    \/ QueryAll(1)
    \/ Steps(1, SmallWindows)

SpecSort == InitSort /\ [][NextSort]_vars

\* convert_filetime on pairs of tick values.
InitTime ==
    /\ target \in Targets
    /\ overflow_checks = FALSE /\ debug_assertions = FALSE
    /\ InitCommon
    /\ search = [t \in Threads |-> search_("")]
    /\ ft_in \in TickInputs \X TickInputs
    /\ ft_out = <<>>

NextTime == ConvertFiletime

SpecTime == InitTime /\ [][NextTime]_vars

----------------------------------------------------------------------------
\* Vocabulary of the properties

Issued(t) == issued[t] # None
Offset(t) == issued[t][1].cfg["set_offset"]
Count(t) == issued[t][1].cfg["set_max"]

FitsU32(v) == v[3] = 0 /\ v[4] = 0
One64 == FromInt(1, 4)

\* The exact (unwrapped) inclusive lower bound of r, on 64 bits; an exclusive
\* lower bound of usize::MAX has none and is excluded by BoundsFit.
InclusiveLower(r) ==
    CASE r.lo.kind = "Included"  -> r.lo.v
      [] r.lo.kind = "Excluded"  -> Add(r.lo.v, One64).val
      [] r.lo.kind = "Unbounded" -> FromInt(0, 4)

\* Both bounds fit in unsigned 32 bits, the inclusive lower bound included.
BoundsFit(r) ==
    /\ r.lo.kind # "Unbounded" => FitsU32(r.lo.v)
    /\ r.lo.kind = "Excluded" => r.lo.v # Ext(U32_MAX, 4)
    /\ r.hi.kind # "Unbounded" => FitsU32(r.hi.v)

\* The upper bound is not below the start.
NonInverted(r) == r.hi.kind # "Unbounded" => Leq(InclusiveLower(r), r.hi.v)

\* offset + count - 1 = the inclusive upper bound, stated without the
\* subtraction: offset + count = e + 1 (inclusive e), = e (exclusive e).
CountReachesUpper(r, offset, count) ==
    LET sum == Add(Ext(offset, 4), Ext(count, 4)).val
    IN  CASE r.hi.kind = "Included"  -> sum = Add(r.hi.v, One64).val
          [] r.hi.kind = "Excluded"  -> sum = r.hi.v
          [] r.hi.kind = "Unbounded" -> count = U32_MAX

\* C1: for every non-inverted range whose bounds fit in 32 bits, the offset
\* given to the engine is the inclusive lower bound and the count given to the
\* engine satisfies offset + count - 1 = the inclusive upper bound (count =
\* 2^32 - 1 when the upper bound is unbounded), the range 0..=(2^32 - 1) included.
C1_OffsetCountExact ==
    \A t \in Threads :
        (Issued(t) /\ BoundsFit(range[t][1]) /\ NonInverted(range[t][1])) =>
            /\ Ext(Offset(t), 4) = InclusiveLower(range[t][1])
            /\ CountReachesUpper(range[t][1], Offset(t), Count(t))

\* The ranges whose exact count is 2^32: from 0 through 2^32 - 1 inclusive.
NeedsCountOf2To32(r) ==
    /\ r.hi.kind = "Included" /\ r.hi.v = Ext(U32_MAX, 4)
    /\ InclusiveLower(r) = FromInt(0, 4)

\* The conversion of the claim's ranges other than those ending at ..=(2^32 - 1)
\* from 0, which need a count of 2^32: the conversion is exact and never panics.
RangeExactBelowFull ==
    \A t \in Threads :
        (range[t] # None /\ BoundsFit(range[t][1]) /\ NonInverted(range[t][1])
           /\ ~NeedsCountOf2To32(range[t][1])) =>
            /\ (pc[t] = "panicked" => Issued(t))
            /\ Issued(t) =>
                 /\ Ext(Offset(t), 4) = InclusiveLower(range[t][1])
                 /\ CountReachesUpper(range[t][1], Offset(t), Count(t))

\* The offset and count of r in arithmetic modulo 2^32, computed on 64 bits
\* and truncated at the end.
WrappedStart(r) == as_u32(InclusiveLower(r))
WrappedLen(r) ==
    CASE r.hi.kind = "Included"  ->
            as_u32(Add(Sub(r.hi.v, Ext(WrappedStart(r), 4)).val, One64).val)
      [] r.hi.kind = "Excluded"  -> as_u32(Sub(r.hi.v, Ext(WrappedStart(r), 4)).val)
      [] r.hi.kind = "Unbounded" -> U32_MAX

\* Whether a `+` or `-` of the conversion leaves 0..2^32-1 on the truncated bounds.
StepOverflows(r) ==
    \/ r.lo.kind = "Excluded" /\ as_u32(r.lo.v) = U32_MAX
    \/ r.hi.kind # "Unbounded" /\ Less(as_u32(r.hi.v), WrappedStart(r))
    \/ /\ r.hi.kind = "Included"
       /\ WrappedStart(r) = FromInt(0, 2)
       /\ as_u32(r.hi.v) = U32_MAX

\* The ranges C10 is about: inverted, or with a bound that does not fit.
Misuse(r) == ~(BoundsFit(r) /\ NonInverted(r))

\* query_range failed before it issued a query.
FailedBeforeQuery(t) == pc[t] = "panicked" /\ ~Issued(t)

\* C10 as stated: for an inverted or out-of-range range query_range does not
\* fail, and the offset and count handed to the engine are the wrapped values.
C10_MisuseNeverFails ==
    \A t \in Threads :
        (range[t] # None /\ Misuse(range[t][1])) =>
            /\ ~FailedBeforeQuery(t)
            /\ Issued(t) => /\ Offset(t) = WrappedStart(range[t][1])
                            /\ Count(t) = WrappedLen(range[t][1])

\* C10 as amended: for an inverted or out-of-range range, a build without
\* overflow checks never fails in the conversion and hands the engine offset
\* and count computed modulo 2^32 from the bounds truncated to 32 bits; a build
\* with overflow checks panics before any query is issued exactly when a `+`
\* or `-` of the conversion overflows, and hands over the same values otherwise.
C10_WrapsOrPanics ==
    \A t \in Threads :
        (range[t] # None /\ Misuse(range[t][1])) =>
            /\ FailedBeforeQuery(t) <=> (overflow_checks /\ StepOverflows(range[t][1]))
            /\ Issued(t) => /\ Offset(t) = WrappedStart(range[t][1])
                            /\ Count(t) = WrappedLen(range[t][1])

\* An inverted range reached the engine with a wrapped count.
C10_Witness ==
    /\ ~overflow_checks
    /\ Issued(1)
    /\ range[1][1] = Inverted
    /\ Count(1) = <<Base - 8, Base - 1>>

----------------------------------------------------------------------------
\* Concurrency

InCritical(t) == pc[t] \in Setters \cup {"query"}

\* C2: at most one caller is between acquiring the guard and issuing its
\* query, every setting a caller has made so far is still its own, and the
\* configuration each issued query saw is the one its caller wrote.
C2_SerializedConfiguration ==
    /\ \A t, u \in Threads : (InCritical(t) /\ InCritical(u)) => t = u
    /\ \A t \in Threads : \A i \in 1..Len(SetterOrder) :
          ((pc[t] \in Setters /\ i < SetterIndex(pc[t])) \/ pc[t] = "query")
             => engine.by[SetterOrder[i]] = t
    /\ \A t \in Threads : Issued(t) =>
          LET c == issued[t][1].cfg
              s == search[t]
          IN  /\ \A name \in Setters : issued[t][1].by[name] = t
              /\ c["set_search"] = s.pattern
              /\ c["set_regex"] = s.regex
              /\ c["set_match_case"] = s.match_case
              /\ c["set_match_path"] = s.match_path
              /\ c["set_match_whole_word"] = s.match_whole_word
              /\ c["set_sort"] = convert_sort_type(s.sort_key, s.sort_order)
              /\ c["set_request_flags"] = s.requested_metadata
              /\ c["set_offset"] = range_start[t]
              /\ c["set_max"] = range_len[t]

\* Two callers have both issued their queries, with different configurations.
C2_Witness ==
    /\ Issued(1) /\ Issued(2)
    /\ issued[1][1].cfg # issued[2][1].cfg

\* C3 as stated: the guard is released before the window is materialized.
C3_GuardFreeWhileMaterializing ==
    \A t \in Threads : pc[t] = "from_result" => holder # t

\* C3 as amended: the guard stays held while the window is materialized, until
\* query_range returns or panics; no other caller is configuring, querying or
\* materializing meanwhile.
C3_GuardHeldWhileMaterializing ==
    \A t \in Threads : pc[t] = "from_result" =>
        /\ holder = t
        /\ \A u \in Threads \ {t} : pc[u] \notin Setters \cup {"query", "from_result"}

\* One caller is materializing a result while another waits at lock().
C3_Witness ==
    /\ pc[1] = "from_result" /\ cursor[1] < Len(result[1])
    /\ pc[2] = "lock"

----------------------------------------------------------------------------
\* Materialization

\* The number of kind predicates that are true of a raw result.
KindCount(raw) ==
    (IF raw.is_file THEN 1 ELSE 0) + (IF raw.is_folder THEN 1 ELSE 0)
        + (IF raw.is_volume THEN 1 ELSE 0)

\* The kind of a raw result with exactly one kind predicate true.
KindOf(raw) ==
    IF raw.is_file THEN "File" ELSE IF raw.is_folder THEN "Folder" ELSE "Volume"

\* The raw result the k-th collected Item of t came from.
RawOf(t, k) == result[t][outPos[t][k]]

\* The metadata field of an Item that a flag stands for.
FieldOf(item, f) ==
    CASE f = "SIZE"          -> item.size
      [] f = "DATE_CREATED"  -> item.date_created
      [] f = "DATE_MODIFIED" -> item.date_modified
      [] f = "DATE_ACCESSED" -> item.date_accessed
      [] f = "ATTRIBUTES"    -> item.attributes

\* C4: a raw result whose path is retrieved and whose kind predicates are not
\* exactly one true yields no Item and does not crash the query: every Item of
\* the output comes from a raw result with exactly one kind predicate true and
\* carries that kind.
C4_AmbiguousKindSkipped ==
    \A t \in Threads :
        /\ pc[t] = "panicked" => ~Issued(t)
        /\ \A k \in 1..Len(out[t]) :
              /\ KindCount(RawOf(t, k)) = 1
              /\ out[t][k].item_type = KindOf(RawOf(t, k))

\* C5: a metadata field of a returned Item is present if and only if its flag
\* was requested and the accessor succeeded on the raw result, it then holds
\* what the accessor returned, and no accessor is called for a flag that was
\* not requested.
C5_MetadataPresence ==
    \A t \in Threads :
        /\ \A c \in invoked[t] : c[2] \in search[t].requested_metadata
        /\ \A k \in 1..Len(out[t]) : \A f \in ItemMetadata :
              LET raw == RawOf(t, k)
                  field == FieldOf(out[t][k], f)
              IN  /\ field # None <=>
                        (f \in search[t].requested_metadata /\ f \in raw.ok)
                  /\ field # None =>
                        /\ <<outPos[t][k], f>> \in invoked[t]
                        /\ field[1] = IF f \in {"SIZE", "ATTRIBUTES"} THEN raw.val[f]
                                      ELSE convert_filetime(raw.val[f]).val

\* An Item with a requested field present, a requested field absent because its
\* accessor failed, and an available field absent because it was not requested.
C5_Witness ==
    /\ pc[1] = "done"
    /\ \E k \in 1..Len(out[1]) :
          /\ out[1][k].size # None
          /\ \E f \in search[1].requested_metadata : FieldOf(out[1][k], f) = None
    /\ \E k \in 1..Len(out[1]) : \E f \in RawOf(1, k).ok :
          f \notin search[1].requested_metadata /\ FieldOf(out[1][k], f) = None

\* The positions among the first n of window w whose path retrieval succeeds.
PathPositions(w, n) == SelectSeq([i \in 1..n |-> i], LAMBDA i : w[i].path_ok)

AllExclusive(w) == \A i \in 1..Len(w) : KindCount(w[i]) = 1

\* C6: when every raw result of the window has exactly one kind, the query
\* does not fail and the Items collected are, in window order, exactly one for
\* each result whose path retrieval succeeded, whatever its metadata
\* accessors did; the returned length is the window size minus the path failures.
C6_OnePerRetrievedPath ==
    \A t \in Threads :
        (Issued(t) /\ AllExclusive(result[t])) =>
            /\ pc[t] # "panicked"
            /\ outPos[t] = PathPositions(result[t], cursor[t])
            /\ Len(out[t]) = Len(outPos[t])
            /\ \A k \in 1..Len(out[t]) : out[t][k].path = RawOf(t, k).path
            /\ pc[t] = "done" =>
                  Len(out[t]) = Len(result[t])
                      - Cardinality({i \in 1..Len(result[t]) : ~result[t][i].path_ok})

\* Whether Item::from_result panics on raw in convert_filetime: a requested
\* date whose accessor succeeded is not a SystemTime of the target.
ConversionPanics(s, raw) ==
    /\ raw.path_ok
    /\ \E f \in DateFlags :
          f \in s.requested_metadata /\ f \in raw.ok /\ convert_filetime(raw.val[f]).panic

\* The query of an exclusive window fails only in the conversion of a date an
\* accessor returned, never through a failed accessor, and what was collected
\* before is one Item for each result whose path retrieval succeeded.
OnePerRetrievedPathUnlessConversionPanics ==
    \A t \in Threads :
        (Issued(t) /\ AllExclusive(result[t])) =>
            /\ pc[t] = "panicked" =>
                  /\ cursor[t] < Len(result[t])
                  /\ ConversionPanics(search[t], result[t][cursor[t] + 1])
            /\ pc[t] = "done" => cursor[t] = Len(result[t])
            /\ outPos[t] = PathPositions(result[t], cursor[t])
            /\ Len(out[t]) = Len(outPos[t])

----------------------------------------------------------------------------
\* The builder

RECURSIVE UnionAll(_)
UnionAll(seq) == IF seq = <<>> THEN {} ELSE Head(seq) \cup UnionAll(Tail(seq))

\* C7: request_metadata accumulates by union: on every Search a caller has
\* built, two calls equal one call with the union (so they commute, and a
\* repeated call changes nothing) and a call changes no other field; the Search
\* holds the union of all the sets requested, and a query passes exactly that
\* set to the engine.
C7_RequestMetadataUnion ==
    /\ \A s \in {search[t] : t \in {u \in Threads : pc[u] = "idle" /\ ncalls[u] > 0}} :
          \A A \in SUBSET ItemMetadata : \A B \in SUBSET ItemMetadata :
              /\ request_metadata(request_metadata(s, A), B) = request_metadata(s, A \cup B)
              /\ request_metadata(request_metadata(s, A), B)
                    = request_metadata(request_metadata(s, B), A)
              /\ request_metadata(request_metadata(s, A), A) = request_metadata(s, A)
              /\ [request_metadata(s, A) EXCEPT
                    !.requested_metadata = s.requested_metadata] = s
    /\ \A t \in Threads :
          /\ search[t].requested_metadata = UnionAll(reqHist[t])
          /\ Issued(t) => issued[t][1].cfg["set_request_flags"] = UnionAll(reqHist[t])

\* Size then DateModified were requested in two calls, and the query passed both.
C7_Witness ==
    /\ reqHist[1] = <<{"SIZE"}, {"DATE_MODIFIED"}>>
    /\ Issued(1)
    /\ issued[1][1].cfg["set_request_flags"] = {"SIZE", "DATE_MODIFIED"}

----------------------------------------------------------------------------
\* convert_sort_type

KeyTag(key) ==
    CASE key = "Name" -> "NAME" [] key = "TypeName" -> "TYPE_NAME"
      [] key = "Path" -> "PATH" [] key = "Size" -> "SIZE"
      [] key = "Extension" -> "EXTENSION" [] key = "DateCreated" -> "DATE_CREATED"
      [] key = "DateModified" -> "DATE_MODIFIED"
      [] key = "DateAccessed" -> "DATE_ACCESSED" [] key = "Attributes" -> "ATTRIBUTES"

OrderTag(order) == IF order = "Ascending" THEN "ASCENDING" ELSE "DESCENDING"

\* The engine's sort mode named after a key and an order.
NamedMode(key, order) == "EVERYTHING_SORT_" \o KeyTag(key) \o "_" \o OrderTag(order)

SortPairs == SortKey \X SortOrder

\* C9: each of the 18 (key, order) pairs yields the engine sort mode named for
\* that key and that order, no two pairs yield the same mode, and a query
\* passes the mode of its Search to the engine.
C9_SortMappingInjective ==
    /\ Cardinality(SortPairs) = 18
    /\ \A p \in SortPairs : convert_sort_type(p[1], p[2]) = NamedMode(p[1], p[2])
    /\ \A p, q \in SortPairs :
          convert_sort_type(p[1], p[2]) = convert_sort_type(q[1], q[2]) => p = q
    /\ \A t \in Threads : Issued(t) =>
          issued[t][1].cfg["set_sort"]
              = NamedMode(search[t].sort_key, search[t].sort_order)

\* Size descending was replaced by DateAccessed descending, which the query passed.
C9_Witness ==
    /\ ncalls[1] = 2
    /\ Issued(1)
    /\ search[1].sort_key = "DateAccessed" /\ search[1].sort_order = "Descending"
    /\ issued[1][1].cfg["set_sort"] = "EVERYTHING_SORT_DATE_ACCESSED_DESCENDING"

----------------------------------------------------------------------------
\* convert_filetime

TimeLess(x, y) == Less(x.secs, y.secs) \/ (x.secs = y.secs /\ x.nanos < y.nanos)

\* C8: convert_filetime(t) does not panic and is the epoch plus exactly
\* max(t - 116444736000000000, 0) intervals of 100 ns, with a nanosecond part
\* below 10^9: the epoch itself for t at or below the constant, and strictly
\* increasing at or above it.
C8_FiletimeExact ==
    ft_out # <<>> =>
        /\ \A i \in 1..2 :
              LET t == ft_in[i]
                  o == ft_out[i].val
              IN  /\ ~ft_out[i].panic
                  /\ o.nanos >= 0 /\ o.nanos < 1000000000
                  /\ o.nanos % 100 = 0
                  /\ TicksOf(o).fits
                  /\ Leq(t, FILETIME_UNIX_DIFF) => o = UNIX_EPOCH
                  /\ Leq(FILETIME_UNIX_DIFF, t) =>
                        Add(TicksOf(o).val, FILETIME_UNIX_DIFF) = [val |-> t, carry |-> 0]
        /\ (Leq(FILETIME_UNIX_DIFF, ft_in[1]) /\ Less(ft_in[1], ft_in[2]))
              => TimeLess(ft_out[1].val, ft_out[2].val)

\* convert_filetime panics exactly on a Windows target for the tick values
\* above i64::MAX, and is exact as in C8 wherever it does not panic.
FiletimeExactUnlessUnrepresentable ==
    ft_out # <<>> =>
        /\ \A i \in 1..2 :
              LET t == ft_in[i]
                  o == ft_out[i].val
              IN  /\ ft_out[i].panic <=> (target = "windows" /\ ~FitsI64(t))
                  /\ ~ft_out[i].panic =>
                        /\ o.nanos >= 0 /\ o.nanos < 1000000000
                        /\ o.nanos % 100 = 0
                        /\ TicksOf(o).fits
                        /\ Leq(t, FILETIME_UNIX_DIFF) => o = UNIX_EPOCH
                        /\ Leq(FILETIME_UNIX_DIFF, t) =>
                              Add(TicksOf(o).val, FILETIME_UNIX_DIFF)
                                  = [val |-> t, carry |-> 0]
        /\ (/\ Leq(FILETIME_UNIX_DIFF, ft_in[1]) /\ Less(ft_in[1], ft_in[2])
            /\ ~ft_out[1].panic /\ ~ft_out[2].panic)
              => TimeLess(ft_out[1].val, ft_out[2].val)

====
